---- MODULE Spec2Model ----
(***************************************************************************)
(* range2cidr: Range.Deaggregate / splitIntoPrefixes, Aggregate and the    *)
(* [16]byte helpers (Cmp, Add, GetBit, SetBit), modelled on byte arrays,   *)
(* and Deaggregate(ipLo, ipHi) of the math/big version.                    *)
(* A [16]byte value is a sequence of 16 bytes, index 1 = Go index 0 (most  *)
(* significant byte).  A netip.Addr is a record [b |-> bytes] whose byte   *)
(* sequence has 4 (IPv4) or 16 (IPv6) elements; a netip.Prefix is a record *)
(* [addr |-> Addr, bits |-> length], bits = -1 for an invalid prefix.      *)
(***************************************************************************)
EXTENDS Integers, Sequences, FiniteSets, TLC

(* ---------------------------- program constants ------------------------ *)

\* len([16]byte)
AddrLen == 16

\* byte values are 0 .. 255; 256 is the carry threshold of Add
ByteMod == 256

\* bits in the [16]byte value: (16 * 8)
AddrBits == 128

\* netip.Addr.BitLen() of an IPv4 address
V4Bits == 32

\* nMaskBits -= 96 for an unmapped 4in6 address
MappedBits == 96

(* ------------------------------- bounds -------------------------------- *)

\* the Go uint nStep wraps back to 0 after UintMax (2^64 - 1 in the build);
\* every index >= 128 is treated alike by GetBit and SetBit
UintMax == 130

\* low bytes 0 .. MaxLow of the addresses ::x
MaxLow == 3

\* low bytes 255 - MaxTop .. 255 of the addresses ffff:...:ffxx
MaxTop == 0

\* low bytes 0 .. AggMaxLow of the addresses ::x handed to the aggregations
AggMaxLow == 2

\* longest list handed to the aggregations
MaxRanges == 3

(* ------------------------------ byte helpers --------------------------- *)

Pow2Tab == <<1, 2, 4, 8, 16, 32, 64, 128, 256>>

\* 1 << k for k in 0 .. 8
Shl1(k) == Pow2Tab[k + 1]

BitOf(x, k) == (x \div Shl1(k)) % 2

\* x | y on bytes
RECURSIVE ByteOrFrom(_, _, _)
ByteOrFrom(x, y, k) ==
  IF k > 7 THEN 0
  ELSE (IF BitOf(x, k) = 1 \/ BitOf(y, k) = 1 THEN Shl1(k) ELSE 0)
       + ByteOrFrom(x, y, k + 1)

ByteOr(x, y) == ByteOrFrom(x, y, 0)

\* x &^ y on bytes
RECURSIVE ByteAndNotFrom(_, _, _)
ByteAndNotFrom(x, y, k) ==
  IF k > 7 THEN 0
  ELSE (IF BitOf(x, k) = 1 /\ BitOf(y, k) = 0 THEN Shl1(k) ELSE 0)
       + ByteAndNotFrom(x, y, k + 1)

ByteAndNot(x, y) == ByteAndNotFrom(x, y, 0)

Zero16 == [i \in 1..AddrLen |-> 0]

(* -------------------------------- BitOps ------------------------------- *)

\* Cmp: 0 if a = b, -1 if a < b, +1 if a > b; byte 0 is the most significant
RECURSIVE CmpFrom(_, _, _)
CmpFrom(a, b, i) ==
  IF i > AddrLen THEN 0
  ELSE IF a[i] - b[i] < 0 THEN -1
  ELSE IF a[i] - b[i] > 0 THEN 1
  ELSE CmpFrom(a, b, i + 1)

Cmp(a, b) == CmpFrom(a, b, 1)

\* carry into byte i (Go index i - 1) of the loop "for i := 15; i >= 0; i--"
RECURSIVE AddCarry(_, _, _)
AddCarry(a, b, i) ==
  IF i >= AddrLen THEN 0
  ELSE IF a[i + 1] + b[i + 1] + AddCarry(a, b, i + 1) < ByteMod THEN 0 ELSE 1

\* Add: sum of a and b, and carry bit
Add(a, b) ==
  [ret   |-> [i \in 1..AddrLen |-> (a[i] + b[i] + AddCarry(a, b, i)) % ByteMod],
   carry |-> AddCarry(a, b, 0)]

\* GetBit with the byte index taken from the wrong end of the array
GetBitFromFront(a, n) ==
  LET byteIx == n \div 8
  IN  IF byteIx > AddrLen - 1 THEN FALSE
      ELSE BitOf(a[byteIx + 1], n % 8) # 0

\* GetBit: n-th bit of a, false when the byte index is negative
GetBit(a, n) ==
  LET byteIx == (AddrLen - 1) - (n \div 8)
  IN  IF byteIx < 0 THEN FALSE
      ELSE BitOf(a[byteIx + 1], n % 8) # 0

\* SetBit: a with the n-th bit set or cleared, unchanged when the byte index
\* is negative
SetBit(a, n, bSet) ==
  LET byteIx == (AddrLen - 1) - (n \div 8)
  IN  IF byteIx < 0 THEN a
      ELSE IF bSet
           THEN [a EXCEPT ![byteIx + 1] = ByteOr(@, Shl1(n % 8))]
           ELSE [a EXCEPT ![byteIx + 1] = ByteAndNot(@, Shl1(n % 8))]

(* ---------------------------- net/netip values ------------------------- *)

Is4(addr) == Len(addr.b) = 4

Is6(addr) == Len(addr.b) = AddrLen

\* Addr.BitLen: 0 for the zero Addr
BitLen(addr) ==
  IF Is4(addr) THEN V4Bits ELSE IF Is6(addr) THEN AddrBits ELSE 0

\* Addr.Is4In6: an IPv6 address with the ::ffff:0:0/96 prefix
Is4In6(addr) ==
  /\ Is6(addr)
  /\ \A i \in 1..10 : addr.b[i] = 0
  /\ addr.b[11] = 255
  /\ addr.b[12] = 255

\* Addr.Unmap: the IPv4 address of a 4in6 address, the address itself
\* otherwise
Unmap(addr) ==
  IF Is4In6(addr) THEN [b |-> SubSeq(addr.b, 13, 16)] ELSE addr

\* Addr.As16: IPv4 addresses are returned IPv4-mapped, the zero Addr as
\* sixteen zero bytes
As16(addr) ==
  IF Is4(addr)
  THEN [i \in 1..AddrLen |->
          IF i <= 10 THEN 0 ELSE IF i <= 12 THEN 255 ELSE addr.b[i - 12]]
  ELSE IF Is6(addr) THEN addr.b
  ELSE [i \in 1..AddrLen |-> 0]

AddrFrom16(b16) == [b |-> b16]

\* netip.PrefixFrom: bits outside 0 .. BitLen make the prefix invalid (-1)
PrefixFrom(addr, bits) ==
  [addr |-> addr,
   bits |-> IF bits < 0 \/ bits > BitLen(addr) THEN -1 ELSE bits]

\* the bytes of addr with all but the leading `bits` bits cleared
MaskBytes(bs, bits) ==
  [i \in 1..Len(bs) |->
     LET keep == bits - 8 * (i - 1)
     IN  IF keep >= 8 THEN bs[i]
         ELSE IF keep <= 0 THEN 0
         ELSE (bs[i] \div Shl1(8 - keep)) * Shl1(8 - keep)]

\* Prefix.Masked: the prefix in canonical form, host bits zeroed; the zero
\* Prefix when pfx is invalid
Masked(pfx) ==
  IF pfx.bits < 0 THEN [addr |-> [b |-> <<>>], bits |-> -1]
  ELSE [addr |-> [b |-> MaskBytes(pfx.addr.b, pfx.bits)], bits |-> pfx.bits]

(* --------------------------------- Range ------------------------------- *)

\* Normalize leaving the range as it is
NormalizeNone(r) == r

\* Range.Normalize: swap when A > Z
Normalize(r) ==
  IF Cmp(r.A, r.Z) > 0 THEN [A |-> r.Z, Z |-> r.A] ELSE r

\* RangeFromAddrs
RangeFromAddrs(first, last) ==
  Normalize([A |-> As16(first), Z |-> As16(last)])

\* z after the iterations i = from .. to - 1 of the loop
\* "for i := 0; i < ixEnd; i += 1 { SetBit(&ret.Z, uint(i), true) }"
RECURSIVE SetBitsFrom(_, _, _)
SetBitsFrom(z, from, to) ==
  IF to <= from THEN z ELSE SetBit(SetBitsFrom(z, from, to - 1), to - 1, TRUE)

\* the whole loop, iterations grouped by the byte they write: iteration i
\* writes byte 15 - i/8 only
SetLowBits(z, ixEnd) ==
  [j \in 1..AddrLen |->
     LET from == 8 * (AddrLen - j)
         to   == IF ixEnd < from + 8 THEN ixEnd ELSE from + 8
     IN  SetBitsFrom(z, from, to)[j]]

\* RangeFromPrefix with the loop one iteration short ("i < ixEnd - 1")
RangeFromPrefixShort(pfx) ==
  LET a == As16(Masked(pfx).addr)
  IN  [A |-> a, Z |-> SetLowBits(a, BitLen(pfx.addr) - pfx.bits - 1)]

\* RangeFromPrefix
RangeFromPrefix(pfx) ==
  LET a == As16(Masked(pfx).addr)
  IN  [A |-> a, Z |-> SetLowBits(a, BitLen(pfx.addr) - pfx.bits)]

(* ------------------------------ program state -------------------------- *)

VARIABLES
  pc,            \* position: "idle", "outer", "inner", "emit", "done",
                 \* "next" (between two Deaggregate calls), "returned"
  mode,          \* the operation under way: "none", "deagg", "agg",
                 \* "agg2" (the Aggregate that returns prefixes), "reagg",
                 \* "order" (one pair of endpoints in both orders),
                 \* "big" (Deaggregate(ipLo, ipHi) of the math/big version)
  call,          \* how the receiver of Deaggregate was built
  v,             \* the receiver of Range.Deaggregate after v.Normalize()
  bsIpLo,        \* splitIntoPrefixes: running low bound
  bsIpHi,        \* splitIntoPrefixes: high bound
  nStep,         \* splitIntoPrefixes: block exponent of the current iteration
  lowOrderMask,  \* splitIntoPrefixes: mask grown from the low order
  RET,           \* splitIntoPrefixes: prefixes appended so far
  sR,            \* the ranges handed to Aggregate
  aggRet,        \* the merged ranges, sR[:j+1]
  ix,            \* index of the next merged range to deaggregate
  ret,           \* prefixes of the merged ranges deaggregated so far
  run,           \* 1 in the first of two runs, then 2
  ret1,          \* the prefix list of the first run
  err            \* the error of Deaggregate(ipLo, ipHi), "nil" when none

splitVars == <<v, bsIpLo, bsIpHi, nStep, lowOrderMask, RET>>

aggVars == <<mode, sR, aggRet, ix, ret, run, ret1>>

vars == <<pc, call, err, splitVars, aggVars>>

(* ------------------------------- input sets ---------------------------- *)

\* ::x
LowAddr(x) == [b |-> [i \in 1..AddrLen |-> IF i = AddrLen THEN x ELSE 0]]

\* ffff:ffff:ffff:ffff:ffff:ffff:ffff:ffxx
TopAddr(x) == [b |-> [i \in 1..AddrLen |-> IF i = AddrLen THEN x ELSE 255]]

\* 0.0.0.x and 255.255.255.x
V4Low(x) == [b |-> <<0, 0, 0, x>>]

V4Top(x) == [b |-> <<255, 255, 255, x>>]

\* ::ffff:0.0.0.x, the IPv6 address that is 4in6
Mapped6(x) == [b |-> As16(V4Low(x))]

V6Addrs ==
  {LowAddr(x) : x \in 0..MaxLow} \cup {TopAddr(255 - x) : x \in 0..MaxTop}
    \cup {Mapped6(0)}

V4Addrs == {V4Low(0), V4Low(1), V4Top(254), V4Top(255)}

Addrs == V6Addrs \cup V4Addrs

\* endpoints handed to RangeFromAddrs: two addresses of one IP version, in
\* either order
AddrPairs == (V6Addrs \X V6Addrs) \cup (V4Addrs \X V4Addrs)

\* valid prefix lengths tried for an address: the two shortest, the three
\* longest, and for IPv6 the length of the 4in6 prefix
PrefixLens(addr) ==
  {0, 1} \cup {BitLen(addr) - k : k \in 0..2}
    \cup (IF Is6(addr) THEN {MappedBits} ELSE {})

Prefixes ==
  UNION {{PrefixFrom(a, n) : n \in PrefixLens(a)} : a \in Addrs}

(* ---------------------------------- Init ------------------------------- *)

NoCall == [op |-> "none"]

Init ==
  /\ pc = "idle"
  /\ call = NoCall
  /\ v = [A |-> Zero16, Z |-> Zero16]
  /\ bsIpLo = Zero16
  /\ bsIpHi = Zero16
  /\ nStep = 0
  /\ lowOrderMask = Zero16
  /\ RET = <<>>
  /\ mode = "none"
  /\ sR = <<>>
  /\ aggRet = <<>>
  /\ ix = 0
  /\ ret = <<>>
  /\ run = 0
  /\ ret1 = <<>>
  /\ err = "nil"

(* ------------------------- Range.Deaggregate --------------------------- *)

\* entry of Range.Deaggregate on r: v.Normalize(), then splitIntoPrefixes
Enter(r) ==
  /\ v' = Normalize(r)
  /\ bsIpLo' = Normalize(r).A
  /\ bsIpHi' = Normalize(r).Z
  /\ RET' = <<>>
  /\ pc' = "outer"
  /\ UNCHANGED <<nStep, lowOrderMask>>

\* RangeFromAddrs(first, last).Deaggregate()
DeaggregateAddrs ==
  /\ pc = "idle"
  /\ \E p \in AddrPairs :
       /\ call' = [op |-> "addrs"]
       /\ Enter(RangeFromAddrs(p[1], p[2]))
  /\ mode' = "deagg"
  /\ UNCHANGED <<sR, aggRet, ix, ret, run, ret1, err>>

\* RangeFromPrefix(pfx).Deaggregate()
DeaggregatePrefix ==
  /\ pc = "idle"
  /\ \E pfx \in Prefixes :
       /\ call' = [op |-> "prefix", pfx |-> pfx]
       /\ Enter(RangeFromPrefix(pfx))
  /\ mode' = "deagg"
  /\ UNCHANGED <<sR, aggRet, ix, ret, run, ret1, err>>

\* outer loop head, "for Cmp(&bsIpLo, &bsIpHi) != 1": one more iteration
OuterEnter ==
  /\ pc = "outer"
  /\ Cmp(bsIpLo, bsIpHi) # 1
  /\ nStep' = 0
  /\ lowOrderMask' = Zero16
  /\ pc' = "inner"
  /\ UNCHANGED <<call, v, bsIpLo, bsIpHi, RET, aggVars, err>>

\* outer loop head: bsIpLo > bsIpHi, return RET
OuterExit ==
  /\ pc = "outer"
  /\ Cmp(bsIpLo, bsIpHi) = 1
  /\ pc' = "done"
  /\ UNCHANGED <<call, v, bsIpLo, bsIpHi, nStep, lowOrderMask, RET, aggVars, err>>

\* NEXT[i] |= lowOrderMask[i]
OrMask(a, m) == [i \in 1..AddrLen |-> ByteOr(a[i], m[i])]

\* nStep += 1 on a Go uint
IncStep(n) == IF n >= UintMax THEN 0 ELSE n + 1

\* inner loop head "for !GetBit(&bsIpLo, nStep)": the bit is set, leave
InnerExit ==
  /\ pc = "inner"
  /\ GetBit(bsIpLo, nStep)
  /\ pc' = "emit"
  /\ UNCHANGED <<call, v, bsIpLo, bsIpHi, nStep, lowOrderMask, RET, aggVars, err>>

\* the inner loop breaking as soon as NEXT reaches bsIpHi (>= for >)
InnerGrowEager ==
  /\ pc = "inner"
  /\ ~GetBit(bsIpLo, nStep)
  /\ LET mask == SetBit(lowOrderMask, nStep, TRUE)
         NEXT == OrMask(bsIpLo, mask)
     IN  /\ lowOrderMask' = mask
         /\ IF Cmp(NEXT, bsIpHi) # -1
            THEN pc' = "emit" /\ nStep' = nStep
            ELSE pc' = "inner" /\ nStep' = IncStep(nStep)
  /\ UNCHANGED <<call, v, bsIpLo, bsIpHi, RET, aggVars, err>>

\* one iteration of the inner loop: grow the mask, break when NEXT > bsIpHi,
\* else nStep += 1
InnerGrow ==
  /\ pc = "inner"
  /\ ~GetBit(bsIpLo, nStep)
  /\ LET mask == SetBit(lowOrderMask, nStep, TRUE)
         NEXT == OrMask(bsIpLo, mask)
     IN  /\ lowOrderMask' = mask
         /\ IF Cmp(NEXT, bsIpHi) = 1
            THEN pc' = "emit" /\ nStep' = nStep
            ELSE pc' = "inner" /\ nStep' = IncStep(nStep)
  /\ UNCHANGED <<call, v, bsIpLo, bsIpHi, RET, aggVars, err>>

\* the prefix with the mask length one short
MakePrefixShort(lo, n) ==
  LET addr == AddrFrom16(lo)
      nMaskBits == AddrBits - 1 - n
  IN  IF Is4In6(addr)
      THEN PrefixFrom(Unmap(addr), nMaskBits - MappedBits)
      ELSE PrefixFrom(addr, nMaskBits)

\* the prefix built from bsIpLo and nStep after the inner loop
MakePrefix(lo, n) ==
  LET addr == AddrFrom16(lo)
      nMaskBits == AddrBits - n
  IN  IF Is4In6(addr)
      THEN PrefixFrom(Unmap(addr), nMaskBits - MappedBits)
      ELSE PrefixFrom(addr, nMaskBits)

\* the advance with the bit next to nStep set in tmp
AdvanceNextBit(lo, n) == Add(lo, SetBit(Zero16, n + 1, TRUE)).ret

\* bsIpLo, _ = Add(&bsIpLo, &tmp), tmp = 1 << nStep, carry discarded
Advance(lo, n) == Add(lo, SetBit(Zero16, n, TRUE)).ret

\* after the inner loop: append the prefix and advance bsIpLo
Emit ==
  /\ pc = "emit"
  /\ RET' = Append(RET, MakePrefix(bsIpLo, nStep))
  /\ bsIpLo' = Advance(bsIpLo, nStep)
  /\ pc' = "outer"
  /\ UNCHANGED <<call, v, bsIpHi, nStep, lowOrderMask, aggVars, err>>

Next ==
  \/ DeaggregateAddrs
  \/ DeaggregatePrefix
  \/ OuterEnter
  \/ OuterExit
  \/ InnerExit
  \/ InnerGrow
  \/ Emit

Spec == Init /\ [][Next]_vars

\* the steps of a call in progress; a started call keeps running
Step == OuterEnter \/ OuterExit \/ InnerExit \/ InnerGrow \/ Emit

FairSpec == Spec /\ WF_vars(Step)

(* ------------------- one pair of endpoints, both orders ---------------- *)

\* the zero netip.Addr
ZeroAddr == [b |-> <<>>]

\* the zero Addr and ::0 .. ::MaxLow
OrderLow == {ZeroAddr} \cup {LowAddr(x) : x \in 0..MaxLow}

\* IPv4 addresses and the IPv6 address ::ffff:0.0.0.0
OrderMapped == V4Addrs \cup {Mapped6(0)}

\* the two ends of the address space
OrderEnds == {LowAddr(0), TopAddr(255)}

\* pairs of any two addresses, in either order
OrderPairs ==
  (OrderLow \X OrderLow) \cup (OrderMapped \X OrderMapped)
    \cup (OrderEnds \X OrderEnds)

\* RangeFromAddrs(first, last).Deaggregate()
OrderFirst ==
  /\ pc = "idle"
  /\ \E p \in OrderPairs :
       /\ call' = [op |-> "order", first |-> p[1], last |-> p[2]]
       /\ Enter(RangeFromAddrs(p[1], p[2]))
  /\ mode' = "order"
  /\ run' = 1
  /\ UNCHANGED <<sR, aggRet, ix, ret, ret1, err>>

\* the first call has returned: RangeFromAddrs(last, first).Deaggregate()
OrderSwapped ==
  /\ pc = "done"
  /\ mode = "order"
  /\ run = 1
  /\ ret1' = RET
  /\ Enter(RangeFromAddrs(call.last, call.first))
  /\ run' = 2
  /\ UNCHANGED <<call, mode, sR, aggRet, ix, ret, err>>

OrderNext ==
  \/ OrderFirst
  \/ OrderSwapped
  \/ OuterEnter
  \/ OuterExit
  \/ InnerExit
  \/ InnerGrow
  \/ Emit

OrderSpec == Init /\ [][OrderNext]_vars

(* --------------- Deaggregate(ipLo, ipHi), the math/big version --------- *)

\* netip.Addr.IsValid: false for the zero Addr
IsValid(addr) == Is4(addr) \/ Is6(addr)

\* netip.Addr.AsSlice: 4 or 16 bytes
AsSlice(addr) == addr.b

\* bytes.Compare on slices of one length
BytesCompare(a, b) ==
  IF a = b THEN 0
  ELSE LET k == CHOOSE i \in 1..Len(a) :
                  a[i] # b[i] /\ \A j \in 1..(i - 1) : a[j] = b[j]
       IN  IF a[k] < b[k] THEN -1 ELSE 1

\* big.Int.SetBytes: the number a big-endian byte slice denotes
RECURSIVE SetBytes(_)
SetBytes(bs) ==
  IF bs = <<>> THEN 0
  ELSE SetBytes(SubSeq(bs, 1, Len(bs) - 1)) * ByteMod + bs[Len(bs)]

\* big.Int.FillBytes: the number as n big-endian bytes
RECURSIVE FillBytes(_, _)
FillBytes(x, n) ==
  IF n = 0 THEN <<>> ELSE Append(FillBytes(x \div ByteMod, n - 1), x % ByteMod)

\* Lsh(NI(1), n)
RECURSIVE Lsh1(_)
Lsh1(n) == IF n = 0 THEN 1 ELSE 2 * Lsh1(n - 1)

\* big.Int.Bit
Bit(x, n) == (x \div Lsh1(n)) % 2

\* big.Int.Or
RECURSIVE Or(_, _)
Or(x, y) ==
  IF x = 0 THEN y
  ELSE IF y = 0 THEN x
  ELSE (IF x % 2 = 1 \/ y % 2 = 1 THEN 1 ELSE 0) + 2 * Or(x \div 2, y \div 2)

\* the inner loop of splitIntoCidrs from nStep on: the nStep it ends with
RECURSIVE InnerLoop(_, _, _, _)
InnerLoop(bigLo, bigHi, n, mask) ==
  IF Bit(bigLo, n) # 0 THEN n
  ELSE LET m == Or(mask, Lsh1(n))
       IN  IF Or(bigLo, m) > bigHi THEN n
           ELSE InnerLoop(bigLo, bigHi, n + 1, m)

\* the outer loop of splitIntoCidrs: the list returned at the end
RECURSIVE OuterLoop(_, _, _, _)
OuterLoop(bigLo, bigHi, nBytes, prefixes) ==
  IF bigLo > bigHi THEN prefixes
  ELSE LET n == InnerLoop(bigLo, bigHi, 0, 0)
           prfx == PrefixFrom([b |-> FillBytes(bigLo, nBytes)], nBytes * 8 - n)
       IN  OuterLoop(bigLo + Lsh1(n), bigHi, nBytes, Append(prefixes, prfx))

splitIntoCidrs(lo, hi) == OuterLoop(SetBytes(lo), SetBytes(hi), Len(lo), <<>>)

\* Deaggregate(ipLo, ipHi): the prefixes and the error it returns
DeaggregateResult(ipLo, ipHi) ==
  IF ~IsValid(ipLo) /\ ~IsValid(ipHi)
  THEN [prefixes |-> <<>>, err |-> "EIpInvalid"]
  ELSE LET lo == IF Is4In6(ipLo) THEN Unmap(ipLo) ELSE ipLo
           hi == IF Is4In6(ipHi) THEN Unmap(ipHi) ELSE ipHi
       IN  IF ~(Is4(lo) /\ Is4(hi)) /\ ~(Is6(lo) /\ Is6(hi))
           THEN [prefixes |-> <<>>, err |-> "EIpVersionMismatch"]
           ELSE LET sLo == AsSlice(lo)
                    sHi == AsSlice(hi)
                IN  [prefixes |-> IF BytesCompare(sLo, sHi) = 1
                                  THEN splitIntoCidrs(sHi, sLo)
                                  ELSE splitIntoCidrs(sLo, sHi),
                     err |-> "nil"]

\* the addresses handed to Deaggregate(ipLo, ipHi): the zero Addr, 0.0.0.x,
\* ::x and ::ffff:0.0.0.x for x in 0 .. MaxLow
BigAddrs ==
  {ZeroAddr} \cup UNION {{V4Low(x), LowAddr(x), Mapped6(x)} : x \in 0..MaxLow}

\* one call of Deaggregate(ipLo, ipHi)
Deaggregate ==
  /\ pc = "idle"
  /\ \E ipLo \in BigAddrs, ipHi \in BigAddrs :
       /\ call' = [op |-> "big", ipLo |-> ipLo, ipHi |-> ipHi]
       /\ RET' = DeaggregateResult(ipLo, ipHi).prefixes
       /\ err' = DeaggregateResult(ipLo, ipHi).err
  /\ mode' = "big"
  /\ pc' = "returned"
  /\ UNCHANGED <<v, bsIpLo, bsIpHi, nStep, lowOrderMask, sR, aggRet, ix, ret, run, ret1>>

BigNext == Deaggregate

BigSpec == Init /\ [][BigNext]_vars

(* -------------------------------- Aggregate ---------------------------- *)

\* "for i := range sR { sR[i].Normalize() }"
NormalizeAll(s) == [i \in DOMAIN s |-> Normalize(s[i])]

\* the orders slices.SortFunc may leave s in: ascending by A under Cmp,
\* elements with equal A in any order (the sort is not stable)
SortedByA(s) == \A i \in 1..(Len(s) - 1) : Cmp(s[i].A, s[i + 1].A) <= 0

Perms(n) == {q \in [1..n -> 1..n] : \A i, j \in 1..n : q[i] = q[j] => i = j}

SortOutcomes(s) ==
  {t \in {[i \in DOMAIN s |-> s[q[i]]] : q \in Perms(Len(s))} : SortedByA(t)}

\* var one [16]byte; SetBit(&one, 0, true)
One16 == SetBit(Zero16, 0, TRUE)

\* the merge sweep "for i := 1; i < len(sR); i += 1" from iteration i on,
\* indices counted from 1; s is the slice as mutated so far
RECURSIVE Sweep(_, _, _)
Sweep(s, i, j) ==
  IF i > Len(s) THEN SubSeq(s, 1, j)
  ELSE LET cmpAA == Cmp(s[i].A, s[j].A)
           nextZ == Add(s[j].Z, One16).ret
           cmpAZ == Cmp(s[i].A, nextZ)
       IN  IF cmpAA >= 0 /\ cmpAZ <= 0
           THEN IF Cmp(s[i].Z, s[j].Z) > 0
                THEN Sweep([s EXCEPT ![j].Z = s[i].Z], i + 1, j)
                ELSE Sweep(s, i + 1, j)
           ELSE Sweep([s EXCEPT ![j + 1] = s[i]], i + 1, j + 1)

\* the results Aggregate(s) can return
AggregateResults(s) ==
  IF Len(s) < 2 THEN {s}
  ELSE {Sweep(t, 2, 1) : t \in SortOutcomes(NormalizeAll(s))}

(* ------------------- Aggregate returning prefixes ---------------------- *)

\* the comparison with ties ordered .Z asc
Cmp2ZAsc(a, b) == IF Cmp(a.A, b.A) = 0 THEN Cmp(a.Z, b.Z) ELSE Cmp(a.A, b.A)

\* ".A asc, .Z desc": the comparison of the sort
Cmp2(a, b) == IF Cmp(a.A, b.A) = 0 THEN Cmp(b.Z, a.Z) ELSE Cmp(a.A, b.A)

\* the order slices.SortFunc leaves s in; elements that compare equal are
\* equal ranges, so there is one
Sorted2(s) ==
  CHOOSE t \in {[i \in DOMAIN s |-> s[q[i]]] : q \in Perms(Len(s))} :
    \A i \in 1..(Len(s) - 1) : Cmp2(t[i], t[i + 1]) <= 0

\* the sweep: drop a contained range, merge an adjacent one, else push
RECURSIVE Sweep2(_, _, _)
Sweep2(s, i, j) ==
  IF i > Len(s) THEN SubSeq(s, 1, j)
  ELSE LET cmpA == Cmp(s[i].A, s[j].A)
       IN  IF cmpA >= 0 /\ Cmp(s[i].Z, s[j].Z) <= 0
           THEN Sweep2(s, i + 1, j)
           ELSE IF cmpA > 0 /\ Cmp(s[i].A, Add(s[j].Z, One16).ret) = 0
           THEN Sweep2([s EXCEPT ![j].Z = s[i].Z], i + 1, j)
           ELSE Sweep2([s EXCEPT ![j + 1] = s[i]], i + 1, j + 1)

\* the ranges the final loop deaggregates
Stack2(s) == IF Len(s) < 2 THEN s ELSE Sweep2(Sorted2(s), 2, 1)

(* --------------------- inputs of the aggregations ---------------------- *)

\* the addresses ::0 .. ::AggMaxLow and ffff:...:ffff, in ascending order
AggAddrs ==
  [k \in 1..(AggMaxLow + 2) |->
     IF k <= AggMaxLow + 1 THEN LowAddr(k - 1).b ELSE TopAddr(255).b]

\* every Range struct over these addresses, endpoints in either order
RangePool ==
  [c \in 1..(Len(AggAddrs) * Len(AggAddrs)) |->
     [A |-> AggAddrs[((c - 1) \div Len(AggAddrs)) + 1],
      Z |-> AggAddrs[((c - 1) % Len(AggAddrs)) + 1]]]

\* the ranges RangeFromAddrs builds from two low addresses, and the single
\* address ffff:...:ffff
IsNearRange(r) == Cmp(r.A, r.Z) <= 0 /\ (r.Z = TopAddr(255).b => r.A = r.Z)

NearPool == SelectSeq(RangePool, IsNearRange)

\* prefixes: ::x/128 and ::x/127 for the low addresses, ::/126,
\* ffff:...:ffff/128, 0.0.0.0/31 and 0.0.0.1/32
PfxPool ==
  [c \in 1..(2 * (AggMaxLow + 1)) |->
     PrefixFrom(LowAddr((c - 1) \div 2), AddrBits - ((c - 1) % 2))]
  \o <<PrefixFrom(LowAddr(0), AddrBits - 2),
       PrefixFrom(TopAddr(255), AddrBits),
       PrefixFrom(V4Low(0), V4Bits - 1),
       PrefixFrom(V4Low(1), V4Bits)>>

\* index sequences of length n over from .. to that never decrease
RECURSIVE NonDecreasing(_, _, _)
NonDecreasing(n, from, to) ==
  IF n = 0 THEN {<<>>}
  ELSE UNION {{<<c>> \o t : t \in NonDecreasing(n - 1, c, to)} : c \in from..to}

\* the lists of up to MaxRanges elements of pool, up to reordering: the sorts
\* make the order of the caller's list immaterial
Lists(pool) ==
  {[i \in DOMAIN f |-> pool[f[i]]] :
     f \in UNION {NonDecreasing(n, 1, Len(pool)) : n \in 0..MaxRanges}}

(* ------------------------ aggregation, as actions ---------------------- *)

\* Aggregate(sR), the version returning ranges
AggregateCall ==
  /\ pc = "idle"
  /\ \E s \in Lists(RangePool) :
       /\ sR' = s
       /\ \E r \in AggregateResults(s) : aggRet' = r
  /\ mode' = "agg"
  /\ pc' = "returned"
  /\ UNCHANGED <<call, splitVars, ix, ret, run, ret1, err>>

AggNext == AggregateCall

AggSpec == Init /\ [][AggNext]_vars

\* TestAggregate: sRng[i] = RangeFromPrefix(sPfxIn[i]); Aggregate(sRng), the
\* version returning prefixes, up to its final loop
Aggregate2Call ==
  /\ pc = "idle"
  /\ \E ps \in Lists(PfxPool) :
       LET s == [i \in DOMAIN ps |-> RangeFromPrefix(ps[i])]
       IN  /\ sR' = s
           /\ aggRet' = Stack2(s)
  /\ mode' = "agg2"
  /\ ix' = 1
  /\ ret' = <<>>
  /\ pc' = "next"
  /\ UNCHANGED <<call, splitVars, run, ret1, err>>

\* Aggregate of ranges followed by Deaggregate of each merged range, first run
ReaggStart ==
  /\ pc = "idle"
  /\ \E s \in Lists(NearPool) :
       /\ sR' = s
       /\ \E r \in AggregateResults(s) : aggRet' = r
  /\ mode' = "reagg"
  /\ run' = 1
  /\ ix' = 1
  /\ ret' = <<>>
  /\ pc' = "next"
  /\ UNCHANGED <<call, splitVars, ret1, err>>

\* "sP := sR[i].Deaggregate()": the call for the next merged range
LoopCall ==
  /\ pc = "next"
  /\ ix <= Len(aggRet)
  /\ Enter(aggRet[ix])
  /\ UNCHANGED <<call, aggVars, err>>

\* "ret = append(ret, sP...)" when the call has returned
LoopCollect ==
  /\ pc = "done"
  /\ mode \in {"agg2", "reagg"}
  /\ ret' = ret \o RET
  /\ ix' = ix + 1
  /\ pc' = "next"
  /\ UNCHANGED <<call, splitVars, mode, sR, aggRet, run, ret1, err>>

\* the loop is over: return ret
LoopReturn ==
  /\ pc = "next"
  /\ ix > Len(aggRet)
  /\ mode = "agg2" \/ (mode = "reagg" /\ run = 2)
  /\ pc' = "returned"
  /\ UNCHANGED <<call, splitVars, aggVars, err>>

\* second run: ranges rebuilt from the first run's prefixes by
\* RangeFromPrefix, aggregated again
ReaggAgain ==
  /\ pc = "next"
  /\ ix > Len(aggRet)
  /\ mode = "reagg"
  /\ run = 1
  /\ ret1' = ret
  /\ \E r \in AggregateResults([i \in DOMAIN ret |-> RangeFromPrefix(ret[i])]) :
       aggRet' = r
  /\ run' = 2
  /\ ix' = 1
  /\ ret' = <<>>
  /\ UNCHANGED <<pc, call, splitVars, mode, sR, err>>

PipeNext ==
  \/ Aggregate2Call
  \/ ReaggStart
  \/ LoopCall
  \/ OuterEnter
  \/ OuterExit
  \/ InnerExit
  \/ InnerGrow
  \/ Emit
  \/ LoopCollect
  \/ LoopReturn
  \/ ReaggAgain

PipeSpec == Init /\ [][PipeNext]_vars

(* --------------------- address blocks, for the properties -------------- *)

\* a <= b as unsigned big-endian numbers
Leq(a, b) ==
  \/ a = b
  \/ \E i \in 1..Len(a) : a[i] < b[i] /\ \A j \in 1..(i - 1) : a[j] = b[j]

Lt(a, b) == a # b /\ Leq(a, b)

IsMax(a) == \A i \in 1..Len(a) : a[i] = 255

\* a + 1 for an address a below the maximum
Succ(a) ==
  LET k == CHOOSE i \in 1..Len(a) :
             a[i] # 255 /\ \A j \in (i + 1)..Len(a) : a[j] = 255
  IN  [j \in 1..Len(a) |-> IF j < k THEN a[j] ELSE IF j = k THEN a[j] + 1 ELSE 0]

\* how many of the low h bits of a number fall into byte j of its n bytes
BitsIn(j, n, h) ==
  LET c == h - 8 * (n - j) IN IF c < 0 THEN 0 ELSE IF c > 8 THEN 8 ELSE c

\* the low h bits of bs are all zero
LowBitsZero(bs, h) ==
  \A j \in 1..Len(bs) : bs[j] % Shl1(BitsIn(j, Len(bs), h)) = 0

\* bs with the low h bits forced to zero, and to one
LowBitsCleared(bs, h) ==
  [j \in 1..Len(bs) |->
     LET m == Shl1(BitsIn(j, Len(bs), h)) IN (bs[j] \div m) * m]

LowBitsFilled(bs, h) ==
  [j \in 1..Len(bs) |->
     LET m == Shl1(BitsIn(j, Len(bs), h)) IN (bs[j] \div m) * m + m - 1]

\* the 128-bit image of an address: IPv4 a.b.c.d is ::ffff:a.b.c.d
Image(addr) ==
  IF Len(addr.b) = 4 THEN <<0, 0, 0, 0, 0, 0, 0, 0, 0, 0, 255, 255>> \o addr.b
  ELSE addr.b

\* host bits, first and last address of the block a valid prefix denotes:
\* [base, base + 2^(addressBits - length) - 1]
HostBits(p) == (IF Len(p.addr.b) = 4 THEN 32 ELSE 128) - p.bits

BlockBase(p) == Image(p.addr)

BlockLast(p) == LowBitsFilled(Image(p.addr), HostBits(p))

InBlock(x, p) == Leq(BlockBase(p), x) /\ Leq(x, BlockLast(p))

\* the aligned block of 2^h addresses that contains base lies within [A, Z]
BlockWithin(base, h, A, Z) ==
  /\ Leq(A, LowBitsCleared(base, h))
  /\ Leq(LowBitsFilled(base, h), Z)

\* least number of aligned blocks that partition [a, z], for small numbers:
\* every choice of the first block is tried
RECURSIVE MinBlocks(_, _)
MinBlocks(a, z) ==
  IF a > z THEN 0
  ELSE LET ks == {k \in 0..8 : a % Shl1(k) = 0 /\ a + Shl1(k) - 1 <= z}
           ns == {1 + MinBlocks(a + Shl1(k), z) : k \in ks}
       IN  CHOOSE n \in ns : \A m \in ns : n <= m

Done == pc = "done"

(* ------------------------------- properties ---------------------------- *)

\* C1 (coverage): when Range.Deaggregate returns for [A, Z], every returned
\* prefix is valid and its block lies inside [A, Z], A is in some block, and
\* the successor of every block end below Z is in some block, so the union of
\* the blocks is exactly [A, Z].
Coverage ==
  Done =>
    /\ \A i \in DOMAIN RET :
         /\ RET[i].bits >= 0
         /\ Leq(v.A, BlockBase(RET[i]))
         /\ Leq(BlockLast(RET[i]), v.Z)
    /\ \E i \in DOMAIN RET : InBlock(v.A, RET[i])
    /\ \A i \in DOMAIN RET :
         BlockLast(RET[i]) # v.Z =>
           \E j \in DOMAIN RET : InBlock(Succ(BlockLast(RET[i])), RET[j])

\* a returned list of several blocks for a range that is not one address
CoverageWitness ==
  Done /\ Len(RET) >= 3 /\ v.A # v.Z /\ HostBits(RET[2]) > 0

\* C6 (disjointness and contiguity): in the returned list the first base is
\* A, bases strictly increase, each block's last address plus one is the next
\* block's base, and the last block ends at Z.
Contiguity ==
  Done =>
    /\ RET # <<>>
    /\ BlockBase(RET[1]) = v.A
    /\ BlockLast(RET[Len(RET)]) = v.Z
    /\ \A i \in 1..(Len(RET) - 1) :
         /\ Lt(BlockBase(RET[i]), BlockBase(RET[i + 1]))
         /\ ~IsMax(BlockLast(RET[i]))
         /\ Succ(BlockLast(RET[i])) = BlockBase(RET[i + 1])

\* a returned list whose blocks differ in size
ContiguityWitness ==
  /\ Done
  /\ Len(RET) >= 2
  /\ HostBits(RET[1]) # HostBits(RET[2])
  /\ RET[1].addr.b # RET[2].addr.b

\* a prefix whose base has all host bits zero, the base being counted with
\* 32 bits when it is IPv4 and with 128 otherwise
Aligned(p) ==
  /\ p.bits >= 0
  /\ LowBitsZero(p.addr.b, (IF Len(p.addr.b) = 4 THEN 32 ELSE 128) - p.bits)

\* C7 (alignment): every prefix splitIntoPrefixes appends is aligned; the
\* newest element is examined in every state and the whole list on return.
Alignment ==
  /\ RET # <<>> => Aligned(RET[Len(RET)])
  /\ Done => \A i \in DOMAIN RET : Aligned(RET[i])

\* a returned list with an IPv4 block that has host bits
AlignmentWitness ==
  /\ Done
  /\ Len(RET) >= 2
  /\ \E i \in DOMAIN RET : Len(RET[i].addr.b) = 4 /\ HostBits(RET[i]) > 1

\* first 15 bytes equal and last bytes close: a range of a few addresses
SmallRange(r) ==
  /\ \A i \in 1..15 : r.A[i] = r.Z[i]
  /\ r.Z[16] - r.A[16] <= 8

\* C5 (minimality): on return every block is maximal (the aligned block twice
\* its size around it is not inside [A, Z], which makes the list the least
\* exact cover), it is the largest aligned block at its base that ends at or
\* before Z, and for a range of a few addresses the length of the list is the
\* least number of blocks found by trying every partition.
Minimality ==
  Done =>
    /\ \A i \in DOMAIN RET :
         LET h == HostBits(RET[i])
             base == BlockBase(RET[i])
         IN  /\ LowBitsZero(base, h)
             /\ Leq(LowBitsFilled(base, h), v.Z)
             /\ h < 128 =>
                  /\ ~BlockWithin(base, h + 1, v.A, v.Z)
                  /\ ~(LowBitsZero(base, h + 1)
                       /\ Leq(LowBitsFilled(base, h + 1), v.Z))
    /\ SmallRange(v) => Len(RET) = MinBlocks(v.A[16], v.Z[16])

\* a small range that needs several blocks, among them one of two addresses
\* or more
MinimalityWitness ==
  /\ Done
  /\ SmallRange(v)
  /\ Len(RET) >= 2
  /\ \E i \in DOMAIN RET : HostBits(RET[i]) >= 1

\* C4 (round trip): for an aligned prefix p, RangeFromPrefix(p).Deaggregate()
\* returns the one-element list [p]: same base, same length, same family.
RoundTrip ==
  (Done /\ call.op = "prefix" /\ Aligned(call.pfx)) => RET = <<call.pfx>>

\* C2 (termination): every started Range.Deaggregate call returns.
Termination == [](pc # "idle" => <>Done)

(* ---------------------- properties of the aggregations ----------------- *)

\* the interval a range denotes, whichever way round its endpoints are
Lo(r) == IF Leq(r.A, r.Z) THEN r.A ELSE r.Z

Hi(r) == IF Leq(r.A, r.Z) THEN r.Z ELSE r.A

Holds(r, x) == Leq(Lo(r), x) /\ Leq(x, Hi(r))

\* every address of [a, b] is in some range of rs: a is, and so is the
\* successor of every range end that lies in [a, b)
CoveredBy(a, b, rs) ==
  /\ \E r \in rs : Holds(r, a)
  /\ \A r \in rs :
       (Leq(a, Hi(r)) /\ Lt(Hi(r), b)) => \E q \in rs : Holds(q, Succ(Hi(r)))

Elems(s) == {s[i] : i \in DOMAIN s}

\* the blocks of a prefix list, as ranges
Blocks(ps) == {[A |-> BlockBase(ps[i]), Z |-> BlockLast(ps[i])] : i \in DOMAIN ps}

SameUnion(rs, qs) ==
  /\ \A r \in rs : CoveredBy(Lo(r), Hi(r), qs)
  /\ \A q \in qs : CoveredBy(Lo(q), Hi(q), rs)

AggReturned == pc = "returned" /\ mode = "agg"

\* C3 (merge result): the ranges Aggregate returns are ascending by low
\* endpoint, each low endpoint greater than the previous high endpoint plus
\* one, and their union is the union of the input ranges.
MergeResult ==
  AggReturned =>
    /\ \A i \in 1..(Len(aggRet) - 1) :
         /\ ~IsMax(Hi(aggRet[i]))
         /\ Lt(Succ(Hi(aggRet[i])), Lo(aggRet[i + 1]))
    /\ SameUnion(Elems(sR), Elems(aggRet))

\* C10 (tie-break independence): whatever order the sort leaves ranges of
\* equal low endpoint in, and so whatever order the caller listed the ranges
\* in, Aggregate returns the same list.
TieBreakIndependent ==
  AggReturned => \A r \in AggregateResults(sR) : r = aggRet

Agg2Returned == pc = "returned" /\ mode = "agg2"

\* C8 (aggregate to prefixes): for two or more ranges built from prefixes the
\* returned prefixes are strictly ascending by base, their blocks cover
\* exactly the union of the input blocks, and each is aligned and maximal in
\* that union (the block twice its size around it is not inside the union),
\* which makes the list the least one.
AggregateToPrefixes ==
  (Agg2Returned /\ Len(sR) >= 2) =>
    /\ \A i \in 1..(Len(ret) - 1) :
         Lt(BlockBase(ret[i]), BlockBase(ret[i + 1]))
    /\ SameUnion(Elems(sR), Blocks(ret))
    /\ \A i \in DOMAIN ret :
         /\ Aligned(ret[i])
         /\ HostBits(ret[i]) < 128 =>
              ~CoveredBy(LowBitsCleared(BlockBase(ret[i]), HostBits(ret[i]) + 1),
                         LowBitsFilled(BlockBase(ret[i]), HostBits(ret[i]) + 1),
                         Elems(sR))

\* three input blocks, two of them merged into one larger block
AggregateToPrefixesWitness ==
  /\ Agg2Returned
  /\ Len(sR) = 3
  /\ Len(ret) = 2
  /\ \E i \in DOMAIN ret :
       HostBits(ret[i]) >= 1 /\ \A k \in DOMAIN sR : sR[k].A # sR[k].Z

ReaggReturned == pc = "returned" /\ mode = "reagg"

\* C9 (idempotence): the prefix list of the second aggregation, run on the
\* ranges rebuilt from the first prefix list, is the first prefix list.
Idempotence == ReaggReturned => ret = ret1

\* a first run that merged ranges and produced several prefixes
IdempotenceWitness ==
  /\ ReaggReturned
  /\ Len(sR) >= 2
  /\ Len(aggRet) < Len(ret1)
  /\ Len(ret1) >= 2
  /\ Len(ret1) # Len(sR)

(* ------------------------- properties of the endpoints ----------------- *)

\* the Range struct of the two addresses of the call as given, before any
\* Normalize
Given == [A |-> As16(call.first), Z |-> As16(call.last)]

\* C11 (endpoint-order independence): Normalize of the given endpoints has
\* A <= Z under Cmp and a second Normalize leaves it unchanged; the receiver
\* of both calls, RangeFromAddrs(a, b) and RangeFromAddrs(b, a), is that
\* range; the list of the second call grows along the list of the first and
\* on return equals it.
EndpointOrder ==
  mode = "order" =>
    /\ Cmp(Normalize(Given).A, Normalize(Given).Z) <= 0
    /\ Normalize(Normalize(Given)) = Normalize(Given)
    /\ v = Normalize(Given)
    /\ run = 2 =>
         /\ Len(RET) <= Len(ret1)
         /\ SubSeq(ret1, 1, Len(RET)) = RET
         /\ Done => RET = ret1

\* both calls have returned several prefixes, the first was given its
\* endpoints high first
EndpointOrderWitness ==
  /\ mode = "order"
  /\ run = 2
  /\ Done
  /\ Len(RET) >= 2
  /\ Cmp(Given.A, Given.Z) = 1

(* ---------------------- further properties of Aggregate ---------------- *)

\* C12 (Aggregate normalizes): for an input list of any length, ranges with
\* swapped endpoints among them, every range of the list Aggregate returns
\* has A <= Z under Cmp.
AggregateNormalizes ==
  AggReturned => \A i \in DOMAIN aggRet : Cmp(aggRet[i].A, aggRet[i].Z) <= 0

(* ------------------ properties of Deaggregate(ipLo, ipHi) -------------- *)

BigReturned == pc = "returned" /\ mode = "big"

\* the IP version of an address after unmapping: 4, 6, or 0 for the zero Addr
Version(addr) == IF Is4(Unmap(addr)) THEN 4 ELSE IF Is6(Unmap(addr)) THEN 6 ELSE 0

\* C13 (invalid-address error): Deaggregate(ipLo, ipHi) returns EIpInvalid
\* and no prefixes whenever ipLo or ipHi is not valid, and EIpVersionMismatch
\* only when both are valid and of different versions after unmapping.
InvalidAddressError ==
  BigReturned =>
    /\ (~IsValid(call.ipLo) \/ ~IsValid(call.ipHi)) =>
         (err = "EIpInvalid" /\ RET = <<>>)
    /\ err = "EIpVersionMismatch" =>
         /\ IsValid(call.ipLo)
         /\ IsValid(call.ipHi)
         /\ Version(call.ipLo) # Version(call.ipHi)

(* -------------------- properties of the block exponent ----------------- *)

\* C14 (valid prefix length): in every state of splitIntoPrefixes nStep is
\* within 0 .. 128, and every prefix appended so far has a length within
\* 0 .. 32 when its base is IPv4 and within 0 .. 128 otherwise.
ValidPrefixLength ==
  /\ nStep \in 0..AddrBits
  /\ \A i \in DOMAIN RET :
       RET[i].bits \in 0..(IF Is4(RET[i].addr) THEN V4Bits ELSE AddrBits)

====
